---- MODULE Spec2Model ----
(***************************************************************************)
(* Lens surface marching of src/main.py.                                   *)
(*                                                                         *)
(* The script grows a seed point into a mesh of horizontal slices: a       *)
(* vertical march from the seed (positive z, then negative z) calls the    *)
(* slice builder get_horizontal_slice at every vertical point, and the     *)
(* slice builder marches horizontally (positive x, then negative x) while  *)
(* is_within_bounds holds of the current point.                            *)
(*                                                                         *)
(* Numbers.  The script computes in IEEE double precision: binary floating *)
(* point with significands of 53 bits, every operation rounded to the      *)
(* nearest representable value, ties to even.  Here a number is the same   *)
(* double, <<s, h, l, e>> standing for s * (h * 2^26 + l) * 2^e with the   *)
(* sign s in {-1, 1}, 2^26 <= h < 2^27 and 0 <= l < 2^26, or <<0, 0, 0, 0>>*)
(* for zero, and +, -, *, / and sqrt give the correctly rounded double, in *)
(* the order in which the script applies them.  Exponents are not bounded: *)
(* no value of a run nears the range limits of a double.  Lengths are in   *)
(* mm, as in the script.                                                   *)
(* The places where numpy divides by zero and goes on with nan or inf (it  *)
(* warns, it does not raise) are kept: an all-nan vector is NaNPoint, and  *)
(* a comparison that involves nan or inf is FALSE.                         *)
(***************************************************************************)
EXTENDS Integers, Sequences, FiniteSets

VARIABLES
    cfg,                 \* module-level configuration, lines 33-44
    seed_surface_coord,  \* line 136
    slices,              \* the mesh, lines 137, 144, 151
    slice_seeds,         \* the argument of the call that built each slice
    current_coord,       \* vertical march, lines 139-151
    pc,                  \* position in the surface builder
    h_seed,              \* get_horizontal_slice: its parameter
    h_slice,             \* get_horizontal_slice: h_slice
    h_current,           \* get_horizontal_slice: current_coord
    hpc,                 \* position in get_horizontal_slice
    n_neg,               \* front insertions made by the running call (line 114)
    run,                 \* number of surface builds started
    prev_mesh            \* the mesh of the previous build

vars == <<cfg, seed_surface_coord, slices, slice_seeds, current_coord, pc,
          h_seed, h_slice, h_current, hpc, n_neg, run, prev_mesh>>

\* ------------------------------------------------------------ bounds
\* A slice under construction holds at most MaxPts points.
MaxPts == 400
\* The mesh holds at most MaxSlices slices.
MaxSlices == 100
\* The surface is built at most Runs times.
Runs == 2

\* ------------------------------------------------------------ numbers
\* Bits of a significand: numpy's float64.
Precision == 53
\* A significand is kept in two words, the upper of 27 and the lower of 26
\* bits: HighMin <= h < HighMax, 0 <= l < HighMin.
HighMin == 2^26
HighMax == 2^27
\* the lower word followed by a guard, a round and a sticky bit
Ext == 2^29
\* Products are formed on limbs of 13 bits, quotients and roots in digits of
\* 14 bits.
Limb == 2^13
Base == 2^14

\* LET x == e IN F(x), with e evaluated once however often F uses x.
With(e, F(_)) == CHOOSE r \in {F(x) : x \in {e}} : TRUE
\* a with b, each evaluated once
Pair(a, b, F(_, _)) == With(<<a, b>>, LAMBDA w : F(w[1], w[2]))

Abs(a) == IF a < 0 THEN -a ELSE a
Sgn(a) == IF a < 0 THEN -1 ELSE 1
Min(a, b) == IF a < b THEN a ELSE b

\* number of bits of n, 0 < n < 2^31
BitLen(n) == 31 - (CHOOSE j \in 0..30 : n >= 2^(30 - j))

Zero == <<0, 0, 0, 0>>

\* the integer n as a double, |n| < 2^27
FromInt(n) ==
    IF n = 0 THEN Zero
    ELSE With(BitLen(Abs(n)), LAMBDA b :
              <<Sgn(n), Abs(n) * 2^(27 - b), 0, b - Precision>>)
One == FromInt(1)

FNeg(a) == With(a, LAMBDA x : <<-x[1], x[2], x[3], x[4]>>)

\* |x| < |y| for nonzero x, y
MagLt(x, y) ==
    \/ x[4] < y[4]
    \/ /\ x[4] = y[4]
       /\ \/ x[2] < y[2]
          \/ x[2] = y[2] /\ x[3] < y[3]

\* is the significand of x a power of two
IsPow2(x) == x[2] = HighMin /\ x[3] = 0

\* Round to nearest, ties to even: the double of sign s nearest to
\* (h * 2^26 + x / 8) * 2^e, x the lower word with three more bits; st tells
\* that bits below those of x were lost.
Round(s, h, x, st, e) ==
    With(<<x \div 8, x % 8>>, LAMBDA w :
        IF w[2] > 4 \/ (w[2] = 4 /\ (st \/ w[1] % 2 = 1))
        THEN IF w[1] + 1 < HighMin THEN <<s, h, w[1] + 1, e>>
             ELSE IF h + 1 < HighMax THEN <<s, h + 1, 0, e>>
             ELSE <<s, HighMin, 0, e + 1>>
        ELSE <<s, h, w[1], e>>)

\* the last bit of x set when bits were lost
Sticky(x, lost) == IF lost /\ x % 2 = 0 THEN x + 1 ELSE x

\* (h * 2^29 + l * 8) shifted right by d bits, as <<upper word, lower word
\* of 29 bits>>, the bits shifted out gathered in the last bit
ShiftRight(h, l, d) ==
    IF d = 0 THEN <<h, l * 8>>
    ELSE IF d <= 29
    THEN With((h % 2^d) * 2^(29 - d) + (l * 8) \div 2^d, LAMBDA x :
              <<h \div 2^d, Sticky(x, (l * 8) % 2^d # 0)>>)
    ELSE IF d <= 56
    THEN With(h \div 2^(d - 29), LAMBDA x :
              <<0, Sticky(x, h % 2^(d - 29) # 0 \/ l # 0)>>)
    ELSE <<0, 1>>

\* x + y for nonzero x, y of the same sign, |x| >= |y|
AddMag(x, y) ==
    With(ShiftRight(y[2], y[3], x[4] - y[4]), LAMBDA t :
    With(<<x[2] + t[1] + (x[3] * 8 + t[2]) \div Ext, (x[3] * 8 + t[2]) % Ext>>,
         LAMBDA w :
        IF w[1] >= HighMax
        THEN Round(x[1], w[1] \div 2,
                   (w[1] % 2) * 2^28 + Sticky(w[2] \div 2, w[2] % 2 = 1),
                   FALSE, x[4] + 1)
        ELSE Round(x[1], w[1], w[2], FALSE, x[4])))

\* x + y for nonzero x, y of opposite signs, |x| >= |y|
SubMag(x, y) ==
    With(ShiftRight(y[2], y[3], x[4] - y[4]), LAMBDA t :
    With(IF x[3] * 8 < t[2] THEN <<x[2] - t[1] - 1, x[3] * 8 - t[2] + Ext>>
         ELSE <<x[2] - t[1], x[3] * 8 - t[2]>>, LAMBDA w :
        IF w[1] = 0 /\ w[2] = 0 THEN Zero
        ELSE IF w[1] >= HighMin THEN Round(x[1], w[1], w[2], FALSE, x[4])
        ELSE IF w[1] > 0
        THEN With(27 - BitLen(w[1]), LAMBDA k :
                  Round(x[1], w[1] * 2^k + w[2] \div 2^(29 - k),
                        (w[2] % 2^(29 - k)) * 2^k, FALSE, x[4] - k))
        ELSE With(BitLen(w[2]), LAMBDA n :
                  IF n >= 27
                  THEN Round(x[1], w[2] \div 2^(n - 27),
                             (w[2] % 2^(n - 27)) * 2^(56 - n), FALSE,
                             x[4] - (56 - n))
                  ELSE Round(x[1], w[2] * 2^(27 - n), 0, FALSE,
                             x[4] - (56 - n)))))

\* a + b
FAdd(a, b) ==
    Pair(a, b, LAMBDA x, y :
        IF x[1] = 0 THEN y
        ELSE IF y[1] = 0 THEN x
        ELSE IF MagLt(x, y)
        THEN (IF x[1] = y[1] THEN AddMag(y, x) ELSE SubMag(y, x))
        ELSE (IF x[1] = y[1] THEN AddMag(x, y) ELSE SubMag(x, y)))

FSub(a, b) == FAdd(a, FNeg(b))

\* the significand in four limbs, the highest first
Limbs(h, l) == <<h \div Limb, h % Limb, l \div Limb, l % Limb>>

\* the columns of the product of two significands, the lowest first
MulColumns(a, b) ==
    <<a[4] * b[4],
      a[4] * b[3] + a[3] * b[4],
      a[4] * b[2] + a[3] * b[3] + a[2] * b[4],
      a[4] * b[1] + a[3] * b[2] + a[2] * b[3] + a[1] * b[4],
      a[3] * b[1] + a[2] * b[2] + a[1] * b[3],
      a[2] * b[1] + a[1] * b[2],
      a[1] * b[1]>>

\* the product of columns c, times 2^e, rounded
MulRound(s, c, e) ==
    With(<<c[4] + (c[3] + (c[2] + c[1] \div Limb) \div Limb) \div Limb,
           \/ c[1] % Limb # 0
           \/ (c[2] + c[1] \div Limb) % Limb # 0
           \/ (c[3] + (c[2] + c[1] \div Limb) \div Limb) % Limb # 0>>, LAMBDA t :
    With(<<c[7] + (c[6] + (c[5] + t[1] \div Limb) \div Limb) \div Limb,
           (c[6] + (c[5] + t[1] \div Limb) \div Limb) % Limb,
           (c[5] + t[1] \div Limb) % Limb,
           t[1] % Limb>>, LAMBDA d :
        IF d[1] >= HighMax
        THEN Round(s, d[1] \div 2, (d[1] % 2) * 2^28 + d[2] * 2^15 + d[3] * 4,
                   d[4] # 0 \/ t[2], e + Precision)
        ELSE Round(s, d[1], d[2] * 2^16 + d[3] * 8 + d[4] \div 2^10,
                   d[4] % 2^10 # 0 \/ t[2], e + Precision - 1)))

\* a * b
FMul(a, b) ==
    Pair(a, b, LAMBDA x, y :
        IF x[1] = 0 \/ y[1] = 0 THEN Zero
        ELSE IF IsPow2(y)
        THEN <<x[1] * y[1], x[2], x[3], x[4] + y[4] + Precision - 1>>
        ELSE IF IsPow2(x)
        THEN <<x[1] * y[1], y[2], y[3], x[4] + y[4] + Precision - 1>>
        ELSE Pair(Limbs(x[2], x[3]), Limbs(y[2], y[3]), LAMBDA u, v :
             With(MulColumns(u, v), LAMBDA c :
                  MulRound(x[1] * y[1], c, x[4] + y[4]))))

\* the significand times 8 and times 4 in four digits, the highest first
Digits8(h, l) ==
    <<h \div Limb, (h % Limb) * 2 + l \div 2^25, (l % 2^25) \div 2^11,
      (l % 2^11) * 8>>
Digits4(h, l) == <<h \div Base, h % Base, l \div 2^12, (l % 2^12) * 4>>

\* columns c, the lowest first, as digits, the highest first; the highest is
\* negative when the number is
Carry(c) ==
    With(c, LAMBDA d :
    With(d[3] + (d[2] + d[1] \div Base) \div Base, LAMBDA t :
        <<d[5] + (d[4] + t \div Base) \div Base,
          (d[4] + t \div Base) % Base,
          t % Base,
          (d[2] + d[1] \div Base) % Base,
          d[1] % Base>>))

\* an estimate of the digit floor(r * Base / v), r < v: the digit or one more
QHat(r, v) ==
    With(Min(Base - 1, (r[2] * Base + r[3]) \div v[1]), LAMBDA q :
    With(r[2] * Base + r[3] - q * v[1], LAMBDA rh :
        IF rh < Base /\ q * v[2] > rh * Base + r[4]
        THEN IF rh + v[1] < Base /\ (q - 1) * v[2] > (rh + v[1]) * Base + r[4]
             THEN q - 2
             ELSE q - 1
        ELSE q))

\* one digit of a quotient: <<q, the digits of r * Base - q * v>> with
\* q = floor(r * Base / v), for r = <<_, r3, r2, r1, r0>> < v = <<v3, .., v0>>
DivDigit(r, v) ==
    With(QHat(r, v), LAMBDA q :
    With(Carry(<<0 - q * v[4], r[5] - q * v[3], r[4] - q * v[2],
                 r[3] - q * v[1], r[2]>>), LAMBDA z :
        IF z[1] < 0
        THEN With(Carry(<<z[5] + v[4], z[4] + v[3], z[3] + v[2], z[2] + v[1],
                          z[1]>>), LAMBDA y : <<q - 1, y[2], y[3], y[4], y[5]>>)
        ELSE <<q, z[2], z[3], z[4], z[5]>>))

\* the quotient of significands in four digits, rounded
DivRound(s, u, v, e) ==
    With(DivDigit(u, v), LAMBDA d3 :
    With(DivDigit(d3, v), LAMBDA d2 :
    With(DivDigit(d2, v), LAMBDA d1 :
    With(DivDigit(d1, v), LAMBDA d0 :
        Round(s, d3[1] * Limb + d2[1] \div 2,
              (d2[1] % 2) * 2^28 + d1[1] * Base + d0[1],
              d0[2] + d0[3] + d0[4] + d0[5] # 0, e)))))

\* a / b, b nonzero
FDiv(a, b) ==
    Pair(a, b, LAMBDA x, y :
        IF x[1] = 0 THEN Zero
        ELSE IF IsPow2(y)
        THEN <<x[1] * y[1], x[2], x[3], x[4] - y[4] - (Precision - 1)>>
        ELSE IF MagLt(<<0, x[2], x[3], 0>>, <<0, y[2], y[3], 0>>)
        THEN Pair(<<0>> \o Digits8(x[2], x[3]), Digits8(y[2], y[3]),
                  LAMBDA u, v :
                      DivRound(x[1] * y[1], u, v, x[4] - y[4] - Precision))
        ELSE Pair(<<0>> \o Digits4(x[2], x[3]), Digits8(y[2], y[3]),
                  LAMBDA u, v :
                      DivRound(x[1] * y[1], u, v, x[4] - y[4] - (Precision - 1))))

\* one step of Newton's iteration for the integer square root of n
IntSqrtStep(n, s) == With(s, LAMBDA t : (t + n \div t) \div 2)

\* floor(sqrt(n)), 2^26 <= n < 2^28
IntSqrt(n) ==
    With(IntSqrtStep(n, IntSqrtStep(n, IntSqrtStep(n, IntSqrtStep(n, 11585)))),
         LAMBDA s : IF s * s > n THEN s - 1 ELSE s)

\* one digit of a square root: <<d, the digits of R - d * (P * Base + d)>>
\* for the largest d <= q that leaves the rest positive or zero; P is twice
\* the root so far
RECURSIVE SqrtDigit(_, _, _)
SqrtDigit(R, P, q) ==
    With(<<R, P, q>>, LAMBDA w :
    With(Carry(<<w[1][5] - w[3] * w[3], w[1][4] - w[3] * w[2][3],
                 w[1][3] - w[3] * w[2][2], w[1][2] - w[3] * w[2][1],
                 w[1][1]>>), LAMBDA z :
        IF z[1] < 0 THEN SqrtDigit(w[1], w[2], w[3] - 1)
        ELSE <<w[3], z[1], z[2], z[3], z[4], z[5]>>))

\* the root of the digits u in four digits, rounded
SqrtRound(u, e) ==
    With(IntSqrt(u[1] * Base + u[2]), LAMBDA r3 :
    With(u[1] * Base + u[2] - r3 * r3, LAMBDA rest :
    With(SqrtDigit(<<0, 0, rest, u[3], u[4]>>, <<0, 0, 2 * r3>>,
                   Min(Base - 1, (rest * Base + u[3]) \div (2 * r3))),
         LAMBDA d2 :
    With(SqrtDigit(<<d2[4], d2[5], d2[6], 0, 0>>, <<0, 2 * r3, 2 * d2[1]>>,
                   Min(Base - 1, (d2[4] * Base * Base + d2[5] * Base + d2[6])
                                     \div (2 * r3))),
         LAMBDA d1 :
    With(SqrtDigit(<<d1[3] * Base + d1[4], d1[5], d1[6], 0, 0>>,
                   <<2 * r3, 2 * d2[1], 2 * d1[1]>>,
                   Min(Base - 1, (d1[3] * Base * Base + d1[4] * Base + d1[5])
                                     \div (2 * r3))),
         LAMBDA d0 :
        Round(1, r3 * Limb + d2[1] \div 2,
              (d2[1] % 2) * 2^28 + d1[1] * Base + d0[1],
              d0[2] + d0[3] + d0[4] + d0[5] + d0[6] # 0, e))))))

\* sqrt(a), a >= 0
FSqrt(a) ==
    With(a, LAMBDA x :
        IF x[1] = 0 THEN Zero
        ELSE IF x[4] % 2 = 0
        THEN With(Digits4(x[2], x[3]), LAMBDA u :
                  SqrtRound(u, (x[4] - 58) \div 2 + 3))
        ELSE With(Digits8(x[2], x[3]), LAMBDA u :
                  SqrtRound(u, (x[4] - 59) \div 2 + 3)))

\* a < b: by sign, then by magnitude
FLt(a, b) ==
    Pair(a, b, LAMBDA x, y :
        IF x[1] # y[1] THEN x[1] < y[1]
        ELSE IF x[1] = 0 THEN FALSE
        ELSE IF x[1] > 0 THEN MagLt(x, y)
        ELSE MagLt(y, x))
FLeq(a, b) == ~FLt(b, a)

\* the length n/d mm
Mm(n, d) == FDiv(FromInt(n), FromInt(d))

\* The vector every component of which is nan.
NaNPoint == <<>>
IsNaN(v) == v = NaNPoint

\* useful vectors
x_u == <<One, Zero, Zero>>
y_u == <<Zero, One, Zero>>
z_u == <<Zero, Zero, One>>

Dot(a, b) ==
    Pair(a, b, LAMBDA v, w :
        FAdd(FAdd(FMul(v[1], w[1]), FMul(v[2], w[2])), FMul(v[3], w[3])))

Cross(a, b) ==
    Pair(a, b, LAMBDA v, w :
        <<FSub(FMul(v[2], w[3]), FMul(v[3], w[2])),
          FSub(FMul(v[3], w[1]), FMul(v[1], w[3])),
          FSub(FMul(v[1], w[2]), FMul(v[2], w[1]))>>)

\* np.linalg.norm
Norm(v) == FSqrt(Dot(v, v))

VecAdd(a, b) ==
    Pair(a, b, LAMBDA v, w :
        IF IsNaN(v) \/ IsNaN(w) THEN NaNPoint
        ELSE <<FAdd(v[1], w[1]), FAdd(v[2], w[2]), FAdd(v[3], w[3])>>)

VecSub(a, b) ==
    Pair(a, b, LAMBDA v, w :
        IF IsNaN(v) \/ IsNaN(w) THEN NaNPoint
        ELSE <<FSub(v[1], w[1]), FSub(v[2], w[2]), FSub(v[3], w[3])>>)

VecNeg(a) ==
    With(a, LAMBDA v :
        IF IsNaN(v) THEN NaNPoint ELSE <<FNeg(v[1]), FNeg(v[2]), FNeg(v[3])>>)

\* v * k and v / d, component by component (d nonzero)
VecScale(v, k) ==
    Pair(v, k, LAMBDA w, c : <<FMul(w[1], c), FMul(w[2], c), FMul(w[3], c)>>)
VecDiv(v, d) ==
    Pair(v, d, LAMBDA w, c : <<FDiv(w[1], c), FDiv(w[2], c), FDiv(w[3], c)>>)

\* v / norm(v); nan when the norm is zero (0/0)
UnitVec(v) ==
    With(v, LAMBDA w : With(Norm(w), LAMBDA n :
         IF n = Zero THEN NaNPoint ELSE VecDiv(w, n)))

\* np.tan(fov/2 * np.pi/180), the double that the script's expression gives
\* for the angle: 0.2679491924311227, 0.41421356237309503,
\* 0.5773502691896257, 0.9999999999999999 (np.pi/4 is below pi/4, and the
\* tangent comes out as the double next below 1) and 1.7320508075688767
TanHalf(fov) ==
    CASE fov = 30  -> <<1, 71927063, 43961686, -54>>
      [] fov = 45  -> <<1, 111189606, 33353522, -54>>
      [] fov = 60  -> <<1, 77490641, 26227484, -53>>
      [] fov = 90  -> <<1, HighMax - 1, HighMin - 1, -Precision>>
      [] fov = 120 -> <<1, 116235962, 5786792, -52>>

\* ------------------------------------------------------------ helper functions

\* return the surface normal for a given point in space
get_surface_normal(surface_coord) ==
    With(surface_coord, LAMBDA p :
        IF IsNaN(p) THEN NaNPoint
        ELSE With(UnitVec(p), LAMBDA OP_vec_unit :
             With(UnitVec(VecSub(p, cfg.src_coord)), LAMBDA src_vec_unit :
                  VecAdd(OP_vec_unit, src_vec_unit))))

\* The flip with its test inverted: the step comes out pointing backwards.
FlipInverted(disp_vec, axis) ==
    IF FLt(Zero, Dot(disp_vec, axis)) THEN VecNeg(disp_vec) ELSE disp_vec

\* the flip of lines 73-74 and 78-79
FlipToPositive(disp_vec, axis) ==
    IF FLt(Dot(disp_vec, axis), Zero) THEN VecNeg(disp_vec) ELSE disp_vec

\* orth_vec * step / norm(orth_vec), flipped; nan when orth_vec is the zero
\* vector (0/0)
Displacement(orth_vec, step, axis) ==
    With(orth_vec, LAMBDA o : With(Norm(o), LAMBDA orth_norm :
         IF orth_norm = Zero THEN NaNPoint
         ELSE With(VecDiv(VecScale(o, step), orth_norm),
                   LAMBDA disp_vec : FlipToPositive(disp_vec, axis))))

\* The two cross products exchanged: a horizontal step taken across x_u.
get_next_surface_coord_delta_swapped(prev_surface_normal, horizontal) ==
    With(prev_surface_normal, LAMBDA n :
        IF IsNaN(n) THEN NaNPoint
        ELSE IF horizontal
             THEN Displacement(Cross(n, x_u), cfg.h_step, x_u)
             ELSE Displacement(Cross(n, z_u), cfg.v_step, z_u))

\* displacement of length h_step or v_step along the surface, pointing in
\* positive x (horizontal) or positive z (vertical)
get_next_surface_coord_delta(prev_surface_normal, horizontal) ==
    With(prev_surface_normal, LAMBDA n :
        IF IsNaN(n) THEN NaNPoint
        ELSE IF horizontal
             THEN Displacement(Cross(n, z_u), cfg.h_step, x_u)
             ELSE Displacement(Cross(n, x_u), cfg.v_step, z_u))

\* ellipse semi-axes, lines 89-90
r_x == FMul(cfg.init_center_dist, TanHalf(cfg.h_fov))
r_z == FMul(cfg.init_center_dist, TanHalf(cfg.v_fov))

\* the ellipse equation of line 96 for a point of the plane (rx, rz nonzero)
InEllipse(cast_point, rx, rz) ==
    With(<<Dot(cast_point, x_u), Dot(cast_point, z_u), rx, rz>>, LAMBDA w :
         FLeq(FAdd(FDiv(FMul(w[1], w[1]), FMul(w[3], w[3])),
                   FDiv(FMul(w[2], w[2]), FMul(w[4], w[4]))),
              One))

\* is the point, cast to the plane y = init_center_dist, inside the ellipse
is_within_bounds(surface_coord) ==
    With(surface_coord, LAMBDA p :
        IF IsNaN(p) THEN FALSE                         \* nan <= 1 is False
        ELSE With(<<Dot(p, y_u), r_x, r_z>>, LAMBDA w :
             IF w[1] = Zero THEN FALSE                 \* cast is inf or nan
             ELSE IF w[2] = Zero \/ w[3] = Zero THEN FALSE     \* 0/0 or x/0
             ELSE With(VecScale(p, FDiv(cfg.init_center_dist, w[1])),
                       LAMBDA cast_point : InEllipse(cast_point, w[2], w[3]))))

\* one marching step from a point: lines 104-106, 111-113, 141-143, 148-150
Advance(coord, horizontal, sign) ==
    With(coord, LAMBDA p :
    With(get_surface_normal(p), LAMBDA normal :
    With(get_next_surface_coord_delta(normal, horizontal), LAMBDA delta :
         VecAdd(p, IF sign < 0 THEN VecNeg(delta) ELSE delta))))

\* ------------------------------------------------------------ configurations
Config(hf, vf, hs, vs, d, src) ==
    [h_fov |-> hf, v_fov |-> vf, h_step |-> hs, v_step |-> vs,
     init_center_dist |-> d, src_coord |-> src]

\* the source of line 44, (50, -10, 0) mm
ScriptSrc == <<Mm(50, 1), Mm(-10, 1), Zero>>

\* the configuration of lines 33-44: h_fov 90, v_fov 45, h_step .25 mm,
\* v_step 5 mm, init_center_dist 50 mm, src_coord (50, -10, 0) mm
ScriptConfig == Config(90, 45, Mm(1, 4), Mm(5, 1), Mm(50, 1), ScriptSrc)

\* the end-to-end scenario: 90 and 90 degrees, steps of 1 mm, the same seed
\* distance and source
EndToEndConfig == Config(90, 90, Mm(1, 1), Mm(1, 1), Mm(50, 1), ScriptSrc)

\* configurations that satisfy the input constraints (angles in (0, 180),
\* positive steps and seed distance, a source no marched point reaches)
ValidConfigs ==
    { ScriptConfig,
      Config(90, 45, Mm(5, 1), Mm(5, 1), Mm(50, 1), ScriptSrc),
      Config(60, 30, Mm(5, 2), Mm(10, 1), Mm(50, 1), ScriptSrc),
      Config(90, 45, Mm(5, 1), Mm(5, 1), Mm(40, 1),
             <<Mm(-30, 1), Mm(20, 1), Mm(10, 1)>>),
      Config(60, 60, Mm(4, 1), Mm(4, 1), Mm(60, 1),
             <<Mm(-40, 1), Mm(-5, 1), Mm(20, 1)>>) }

EndToEndConfigs == { EndToEndConfig, ScriptConfig }

\* configurations that break an input constraint: a zero horizontal step, a
\* zero vertical step, a source on the seed's axis at twice its distance
\* (the normal at the seed is the zero vector), a source at the seed, and a
\* seed distance of zero (the seed is the observer point)
DegenerateConfigs ==
    { Config(90, 45, Zero, Mm(5, 1), Mm(50, 1), ScriptSrc),
      Config(90, 45, Mm(5, 1), Zero, Mm(50, 1), ScriptSrc),
      Config(90, 45, Mm(5, 1), Mm(5, 1), Mm(50, 1), <<Zero, Mm(100, 1), Zero>>),
      Config(90, 45, Mm(5, 1), Mm(5, 1), Mm(50, 1), <<Zero, Mm(50, 1), Zero>>),
      Config(90, 45, Mm(5, 1), Mm(5, 1), Zero, ScriptSrc) }

\* ------------------------------------------------------------ state machine
InitWith(configs) ==
    /\ cfg \in configs
    /\ seed_surface_coord = <<Zero, cfg.init_center_dist, Zero>>
    /\ slices = <<>>
    /\ slice_seeds = <<>>
    /\ current_coord = seed_surface_coord
    /\ pc = "start"
    /\ h_seed = seed_surface_coord
    /\ h_slice = <<>>
    /\ h_current = seed_surface_coord
    /\ hpc = "idle"
    /\ n_neg = 0
    /\ run = 0
    /\ prev_mesh = <<>>

Init == InitWith(ValidConfigs)

\* entry of get_horizontal_slice(seed): lines 100-102
CallSlice(seed) ==
    /\ h_seed' = seed
    /\ h_slice' = <<seed>>
    /\ h_current' = seed
    /\ hpc' = "pos"
    /\ n_neg' = 0

\* line 137: slices = [get_horizontal_slice(seed_surface_coord)], the call
Start ==
    /\ pc = "start"
    /\ pc' = "seed_slice"
    /\ run' = run + 1
    /\ slices' = <<>>
    /\ slice_seeds' = <<>>
    /\ CallSlice(seed_surface_coord)
    /\ UNCHANGED <<cfg, seed_surface_coord, current_coord, prev_mesh>>

\* The step taken from the seed each time, not from the point last reached.
HPosStepStale ==
    /\ hpc = "pos"
    /\ is_within_bounds(h_current)
    /\ Len(h_slice) < MaxPts
    /\ h_current' = Advance(h_seed, TRUE, 1)
    /\ h_slice' = Append(h_slice, h_current')
    /\ UNCHANGED <<cfg, seed_surface_coord, slices, slice_seeds, current_coord,
                   pc, h_seed, hpc, n_neg, run, prev_mesh>>

\* lines 103-107
HPosStep ==
    /\ hpc = "pos"
    /\ is_within_bounds(h_current)
    /\ Len(h_slice) < MaxPts
    /\ h_current' = Advance(h_current, TRUE, 1)
    /\ h_slice' = Append(h_slice, h_current')
    /\ UNCHANGED <<cfg, seed_surface_coord, slices, slice_seeds, current_coord,
                   pc, h_seed, hpc, n_neg, run, prev_mesh>>

\* The negative march left to start where the positive march stopped.
HPosExitNoReset ==
    /\ hpc = "pos"
    /\ ~is_within_bounds(h_current)
    /\ hpc' = "neg"
    /\ UNCHANGED <<cfg, seed_surface_coord, slices, slice_seeds, current_coord,
                   pc, h_seed, h_slice, h_current, n_neg, run, prev_mesh>>

\* lines 103, 109
HPosExit ==
    /\ hpc = "pos"
    /\ ~is_within_bounds(h_current)
    /\ h_current' = h_seed
    /\ hpc' = "neg"
    /\ UNCHANGED <<cfg, seed_surface_coord, slices, slice_seeds, current_coord,
                   pc, h_seed, h_slice, n_neg, run, prev_mesh>>

\* The negative march appending, as the positive march does.
HNegStepAppend ==
    /\ hpc = "neg"
    /\ is_within_bounds(h_current)
    /\ Len(h_slice) < MaxPts
    /\ h_current' = Advance(h_current, TRUE, -1)
    /\ h_slice' = Append(h_slice, h_current')
    /\ n_neg' = n_neg + 1
    /\ UNCHANGED <<cfg, seed_surface_coord, slices, slice_seeds, current_coord,
                   pc, h_seed, hpc, run, prev_mesh>>

\* lines 110-114
HNegStep ==
    /\ hpc = "neg"
    /\ is_within_bounds(h_current)
    /\ Len(h_slice) < MaxPts
    /\ h_current' = Advance(h_current, TRUE, -1)
    /\ h_slice' = <<h_current'>> \o h_slice
    /\ n_neg' = n_neg + 1
    /\ UNCHANGED <<cfg, seed_surface_coord, slices, slice_seeds, current_coord,
                   pc, h_seed, hpc, run, prev_mesh>>

\* lines 110, 116, and the caller's use of the returned slice:
\* line 137 (then 139), line 144, line 151
HNegExit ==
    /\ hpc = "neg"
    /\ ~is_within_bounds(h_current)
    /\ hpc' = "idle"
    /\ CASE pc = "seed_slice" ->
              /\ slices' = <<h_slice>>
              /\ slice_seeds' = <<h_seed>>
              /\ current_coord' = seed_surface_coord
              /\ pc' = "v_pos"
         [] pc = "v_pos" ->
              /\ slices' = Append(slices, h_slice)
              /\ slice_seeds' = Append(slice_seeds, h_seed)
              /\ UNCHANGED <<current_coord, pc>>
         [] pc = "v_neg" ->
              /\ slices' = <<h_slice>> \o slices
              /\ slice_seeds' = <<h_seed>> \o slice_seeds
              /\ UNCHANGED <<current_coord, pc>>
    /\ UNCHANGED <<cfg, seed_surface_coord, h_seed, h_slice, h_current, n_neg,
                   run, prev_mesh>>

\* The vertical step made in place (current_coord += delta): current_coord
\* is the seed array itself, so the seed moves with it.
VPosStepInPlace ==
    /\ pc = "v_pos"
    /\ hpc = "idle"
    /\ is_within_bounds(current_coord)
    /\ Len(slices) < MaxSlices
    /\ current_coord' = Advance(current_coord, FALSE, 1)
    /\ seed_surface_coord' = current_coord'
    /\ CallSlice(current_coord')
    /\ UNCHANGED <<cfg, slices, slice_seeds, pc, run, prev_mesh>>

\* lines 140-144, up to the call of get_horizontal_slice
VPosStep ==
    /\ pc = "v_pos"
    /\ hpc = "idle"
    /\ is_within_bounds(current_coord)
    /\ Len(slices) < MaxSlices
    /\ current_coord' = Advance(current_coord, FALSE, 1)
    /\ CallSlice(current_coord')
    /\ UNCHANGED <<cfg, seed_surface_coord, slices, slice_seeds, pc, run, prev_mesh>>

\* lines 140, 146
VPosExit ==
    /\ pc = "v_pos"
    /\ hpc = "idle"
    /\ ~is_within_bounds(current_coord)
    /\ current_coord' = seed_surface_coord
    /\ pc' = "v_neg"
    /\ UNCHANGED <<cfg, seed_surface_coord, slices, slice_seeds, h_seed, h_slice,
                   h_current, hpc, n_neg, run, prev_mesh>>

\* lines 147-151, up to the call of get_horizontal_slice
VNegStep ==
    /\ pc = "v_neg"
    /\ hpc = "idle"
    /\ is_within_bounds(current_coord)
    /\ Len(slices) < MaxSlices
    /\ current_coord' = Advance(current_coord, FALSE, -1)
    /\ CallSlice(current_coord')
    /\ UNCHANGED <<cfg, seed_surface_coord, slices, slice_seeds, pc, run, prev_mesh>>

\* line 147 fails: the mesh is complete and goes to the exporter (line 157 on)
VNegExit ==
    /\ pc = "v_neg"
    /\ hpc = "idle"
    /\ ~is_within_bounds(current_coord)
    /\ pc' = "done"
    /\ UNCHANGED <<cfg, seed_surface_coord, slices, slice_seeds, current_coord,
                   h_seed, h_slice, h_current, hpc, n_neg, run, prev_mesh>>

Next ==
    \/ Start
    \/ HPosStep
    \/ HPosExit
    \/ HNegStep
    \/ HNegExit
    \/ VPosStep
    \/ VPosExit
    \/ VNegStep
    \/ VNegExit

Spec == Init /\ [][Next]_vars

\* The script is one sequential thread: a step that can be taken is taken.
InitEndToEnd == InitWith(EndToEndConfigs)
SpecEndToEnd == InitEndToEnd /\ [][Next]_vars /\ WF_vars(Next)

InitDegenerate == InitWith(DegenerateConfigs)
SpecDegenerate == InitDegenerate /\ [][Next]_vars

\* The surface builder invoked again on the same module state.
Rebuild ==
    /\ pc = "done"
    /\ run < Runs
    /\ prev_mesh' = slices
    /\ pc' = "start"
    /\ UNCHANGED <<cfg, seed_surface_coord, slices, slice_seeds, current_coord,
                   h_seed, h_slice, h_current, hpc, n_neg, run>>

NextRebuild == Next \/ Rebuild
SpecRebuild == Init /\ [][NextRebuild]_vars

\* ------------------------------------------------------------ claims
Last(s) == s[Len(s)]
SliceReturned == hpc = "idle" /\ h_slice # <<>>

\* C1: every point stored in the slice returned by get_horizontal_slice
\* satisfies is_within_bounds (the first failing candidate on each side is
\* discarded).  The code appends the candidate before it checks it.
C1_ReturnedPointsInBounds ==
    SliceReturned => \A i \in 1..Len(h_slice) : is_within_bounds(h_slice[i])

\* C2: every slice of the mesh was built from a seed that passes
\* is_within_bounds.  The code calls get_horizontal_slice on the advanced
\* point before the loop condition checks it.
C2_SliceSeedsInBounds ==
    \A i \in 1..Len(slice_seeds) : is_within_bounds(slice_seeds[i])

\* C3: the returned slice holds its seed exactly once, at the index equal to
\* the number of front insertions made by the negative march.
C3_SeedOnceAtNegCount ==
    SliceReturned =>
        /\ n_neg + 1 <= Len(h_slice)
        /\ h_slice[n_neg + 1] = h_seed
        /\ \A i \in 1..Len(h_slice) : i # n_neg + 1 => h_slice[i] # h_seed

C3_Witness ==
    /\ SliceReturned
    /\ n_neg >= 3
    /\ Len(h_slice) >= n_neg + 4
    /\ Len(h_slice) # 2 * n_neg + 1

\* C4: with the end-to-end configuration the surface builder terminates, and
\* the mesh it leaves has at least one slice, each with at least one point.
C4_Terminates ==
    <>( /\ pc = "done"
        /\ Len(slices) > 0
        /\ \A i \in 1..Len(slices) : Len(slices[i]) > 0 )

C4_Witness ==
    /\ pc = "done"
    /\ seed_surface_coord = <<Zero, Mm(50, 1), Zero>>
    /\ cfg.h_fov < 180 /\ cfg.v_fov < 180
    /\ FLt(Zero, cfg.h_step) /\ FLt(Zero, cfg.v_step)
    /\ Len(slices) > 2
    /\ \E i \in 1..Len(slices) : Len(slices[i]) > 2

\* C5: marching never goes on after a step of zero length: no slice under
\* construction holds the same point twice in a row, and no two consecutive
\* slices of the mesh were built from the same seed.  The code has no guard.
C5_NoRepeatedPoint ==
    /\ \A i \in 1..(Len(h_slice) - 1) : h_slice[i] # h_slice[i + 1]
    /\ \A i \in 1..(Len(slice_seeds) - 1) : slice_seeds[i] # slice_seeds[i + 1]

\* a point at which one of the degenerate conditions is met: the point is
\* undefined, its component along the observer axis is zero, or it is marched
\* from and the normal or the tangent step computed there is undefined
DegenerateAt(p) ==
    \/ IsNaN(p)
    \/ Dot(p, y_u) = Zero
    \/ /\ is_within_bounds(p)
       /\ \/ IsNaN(get_surface_normal(p))
          \/ IsNaN(get_next_surface_coord_delta(get_surface_normal(p), TRUE))
          \/ IsNaN(get_next_surface_coord_delta(get_surface_normal(p), FALSE))

\* C6: a degenerate condition met during marching aborts the construction:
\* the surface builder never completes with a mesh that holds a point at
\* which a degenerate condition was met.  The code raises nothing.
C6_DegenerateAborts ==
    pc = "done" =>
        \A i \in 1..Len(slices) : \A j \in 1..Len(slices[i]) :
            ~DegenerateAt(slices[i][j])

SortedByX(slice) ==
    \A i \in 1..(Len(slice) - 1) : FLeq(slice[i][1], slice[i + 1][1])

\* C7: in every slice, under construction or in the mesh, x does not
\* decrease from first to last, and the positive step computed at the point
\* being marched from has no negative x component.
C7_SlicesOrderedByX ==
    /\ SortedByX(h_slice)
    /\ \A i \in 1..Len(slices) : SortedByX(slices[i])
    /\ (hpc \in {"pos", "neg"} /\ is_within_bounds(h_current)) =>
           ~FLt(get_next_surface_coord_delta(get_surface_normal(h_current), TRUE)[1],
                Zero)

C7_Witness ==
    /\ pc = "done"
    /\ \E i \in 1..Len(slices) :
          /\ Len(slices[i]) > 5
          /\ FLt(slices[i][1][1], Zero)
          /\ FLt(Zero, Last(slices[i])[1])

\* C8: a second build with the same configuration and seed leaves the same
\* mesh as the first.
C8_RebuildSameMesh ==
    (pc = "done" /\ run >= 2) => slices = prev_mesh

C8_Witness ==
    /\ pc = "done"
    /\ run = 2
    /\ Len(slices) > 3
    /\ \E i \in 1..Len(slices) : Len(slices[i]) > 3

\* C9: a march leaves a direction exactly when the bounds check of the point
\* last reached fails; each new point is computed from the point last
\* reached; nothing is added once the check has failed; the negative march
\* starts again from the seed.
C9_MarchTransitions ==
    [][ /\ (hpc = "pos" /\ is_within_bounds(h_current)) =>
              /\ hpc' = "pos"
              /\ h_slice' = Append(h_slice, Advance(Last(h_slice), TRUE, 1))
              /\ h_current' = Last(h_slice')
        /\ (hpc = "pos" /\ ~is_within_bounds(h_current)) =>
              /\ hpc' = "neg"
              /\ h_slice' = h_slice
              /\ h_current' = h_seed
        /\ (hpc = "pos" /\ hpc' # "pos") => ~is_within_bounds(Last(h_slice))
        /\ (hpc = "neg" /\ is_within_bounds(h_current)) =>
              /\ hpc' = "neg"
              /\ h_slice' = <<Advance(h_slice[1], TRUE, -1)>> \o h_slice
              /\ h_current' = h_slice'[1]
              /\ n_neg = 0 => h_slice'[1] = Advance(h_seed, TRUE, -1)
        /\ (hpc = "neg" /\ ~is_within_bounds(h_current)) =>
              /\ hpc' = "idle"
              /\ h_slice' = h_slice
        /\ (hpc = "neg" /\ hpc' # "neg") => ~is_within_bounds(h_slice[1])
        /\ (hpc = "idle" /\ pc = "v_pos") =>
              IF is_within_bounds(current_coord)
              THEN /\ pc' = "v_pos"
                   /\ current_coord' = Advance(current_coord, FALSE, 1)
                   /\ h_seed' = current_coord'
              ELSE /\ pc' = "v_neg"
                   /\ current_coord' = seed_surface_coord
                   /\ slices' = slices
        /\ (hpc = "idle" /\ pc = "v_neg") =>
              IF is_within_bounds(current_coord)
              THEN /\ pc' = "v_neg"
                   /\ current_coord' = Advance(current_coord, FALSE, -1)
                   /\ h_seed' = current_coord'
              ELSE /\ pc' = "done"
                   /\ slices' = slices
      ]_vars

C9_Witness ==
    /\ hpc = "neg"
    /\ n_neg = 1
    /\ Len(h_slice) > 4
    /\ pc = "v_neg"

\* C10: marching stays in its plane.  Every point of a slice has the z of
\* the slice's seed, and every vertical seed has the x of the initial seed.
C10_MarchStaysInPlane ==
    /\ \A i \in 1..Len(h_slice) : h_slice[i][3] = h_seed[3]
    /\ \A i \in 1..Len(slices) : \A j \in 1..Len(slices[i]) :
           slices[i][j][3] = slice_seeds[i][3]
    /\ \A i \in 1..Len(slice_seeds) : slice_seeds[i][1] = seed_surface_coord[1]
    /\ current_coord[1] = seed_surface_coord[1]

C10_Witness ==
    /\ pc = "done"
    /\ \E i \in 1..Len(slices) :
          /\ slice_seeds[i][3] # Zero
          /\ Len(slices[i]) > 5
          /\ slices[i][1][1] # Last(slices[i])[1]

====
